---------------------------- MODULE Spec2Model ----------------------------
(***************************************************************************)
(* Higgsfield AI MCP adapter: the API client (client.py) and the tool and  *)
(* resource facade (server.py).                                            *)
(*                                                                         *)
(* Python values are modelled as follows: a dict is a function over its    *)
(* string keys (a record), a list is a sequence, None is the value None    *)
(* below, a str is a string.  The string returned by json.dumps(d) is      *)
(* modelled by the dict d it serialises (json.dumps is injective on the    *)
(* dicts built here: str keys in insertion order, JSON-native values).     *)
(***************************************************************************)
EXTENDS Integers, Sequences, FiniteSets, TLC

VARIABLES
    headers,    \* client.headers of the single shared client (server.py:69)
    mcp,        \* the tool and resource registries of the FastMCP server
    calls       \* one record per invocation slot of the host

vars == <<headers, mcp, calls>>

-----------------------------------------------------------------------------
(* Python values *)

None == "<None>"

\* Python truthiness of an Optional[str]: None and "" are falsy.
Truthy(v) == v # None /\ v # ""

\* Python `a or b` on Optional[str]
Or(a, b) == IF Truthy(a) THEN a ELSE b

\* dict.get(key, default)
Get(d, key, default) == IF key \in DOMAIN d THEN d[key] ELSE default

\* d[key] raises KeyError when the key is absent
HasKeys(d, keys) == keys \subseteq DOMAIN d

\* outcome of evaluating a block: a returned value or a raised exception
Return(v) == [tag |-> "return", value |-> v]
Raise(type, msg) == [tag |-> "raise", type |-> type, msg |-> msg]

-----------------------------------------------------------------------------
(* client.py: HiggsfieldClient *)

base_url == "https://platform.higgsfield.ai"

\* mutant: the Accept header is left out
HiggsfieldClient_init_no_accept(api_key, secret) ==
    ("hf-api-key" :> api_key) @@
    ("hf-secret" :> secret) @@
    ("Content-Type" :> "application/json")

\* __init__: the header dict built from the two credentials
HiggsfieldClient_init(api_key, secret) ==
    ("hf-api-key" :> api_key) @@
    ("hf-secret" :> secret) @@
    ("Content-Type" :> "application/json") @@
    ("Accept" :> "application/json")

\* The methods class HiggsfieldClient defines.  Looking up any other
\* attribute on the client raises AttributeError.
ClientMethods ==
    { "generate_image", "generate_video", "create_character",
      "get_job_results", "list_styles", "list_motions", "list_characters",
      "get_character", "delete_character" }

\* generate_image: the params dict (client.py:58-76)
client_generate_image_params(a) ==
    (IF Truthy(a.webhook_url)
        THEN "webhook" :> [url |-> a.webhook_url, secret |-> Or(a.webhook_secret, "")]
        ELSE <<>>) @@
    (IF Truthy(a.style_id) THEN "style_id" :> a.style_id ELSE <<>>) @@
    (IF Truthy(a.custom_reference_id)
        THEN "custom_reference_id" :> a.custom_reference_id ELSE <<>>) @@
    [ prompt |-> a.prompt,
      width_and_height |-> a.width_and_height,
      enhance_prompt |-> a.enhance_prompt,
      quality |-> a.quality,
      batch_size |-> a.batch_size ]

\* generate_image: the request posted (client.py:78-83)
client_generate_image_request(h, a) ==
    [ method |-> "POST", path |-> "/v1/text2image/soul", headers |-> h,
      query |-> <<>>, json |-> [params |-> client_generate_image_params(a)] ]

GenericPrompt == "Cinematic video with natural motion"

\* mutant: only a None prompt is replaced (`if prompt is None`)
client_generate_video_prompt_is_none(prompt) ==
    IF prompt = None THEN GenericPrompt ELSE prompt

\* generate_video: the prompt actually sent (client.py:114-116)
client_generate_video_prompt(prompt) ==
    IF ~Truthy(prompt) THEN GenericPrompt ELSE prompt

\* generate_video: the params dict (client.py:119-130); strength 0.5 is kept
\* as the literal it is written with
client_generate_video_params(a) ==
    [ model |-> a.model,
      prompt |-> client_generate_video_prompt(a.prompt),
      input_images |-> << [type |-> "image_url", image_url |-> a.image_url] >>,
      motions |-> << [id |-> a.motion_id, strength |-> "0.5"] >> ]

\* mutant: the webhook is nested in params, as generate_image does
client_generate_video_body_nested(a) ==
    [ params |->
        (IF Truthy(a.webhook_url)
            THEN "webhook" :> [url |-> a.webhook_url, secret |-> Or(a.webhook_secret, "")]
            ELSE <<>>) @@ client_generate_video_params(a) ]

\* generate_video: the request body (client.py:133-140)
client_generate_video_body(a) ==
    (IF Truthy(a.webhook_url)
        THEN "webhook" :> [url |-> a.webhook_url, secret |-> Or(a.webhook_secret, "")]
        ELSE <<>>) @@
    [ params |-> client_generate_video_params(a) ]

client_generate_video_request(h, a) ==
    [ method |-> "POST", path |-> "/v1/image2video/dop", headers |-> h,
      query |-> <<>>, json |-> client_generate_video_body(a) ]

\* mutant: the list is cut to the documented maximum (image_urls[:5])
client_create_character_payload_first5(a) ==
    [ name |-> a.name,
      input_images |->
          [ i \in 1..(IF Len(a.image_urls) > 5 THEN 5 ELSE Len(a.image_urls)) |->
              [type |-> "image_url", image_url |-> a.image_urls[i]] ] ]

\* create_character: payload and request (client.py:194-207)
client_create_character_payload(a) ==
    [ name |-> a.name,
      input_images |->
          [ i \in 1..Len(a.image_urls) |->
              [type |-> "image_url", image_url |-> a.image_urls[i]] ] ]

client_create_character_request(h, a) ==
    [ method |-> "POST", path |-> "/v1/custom-references", headers |-> h,
      query |-> <<>>, json |-> client_create_character_payload(a) ]

client_get_job_results_request(h, a) ==
    [ method |-> "GET", path |-> "/v1/job-sets/" \o a.job_set_id, headers |-> h,
      query |-> <<>>, json |-> None ]

client_list_styles_request(h, a) ==
    [ method |-> "GET", path |-> "/v1/text2image/soul-styles", headers |-> h,
      query |-> <<>>, json |-> None ]

client_list_motions_request(h, a) ==
    [ method |-> "GET", path |-> "/v1/motions", headers |-> h,
      query |-> <<>>, json |-> None ]

client_list_characters_request(h, a) ==
    [ method |-> "GET", path |-> "/v1/custom-references/list", headers |-> h,
      query |-> [page |-> a.page, page_size |-> a.page_size], json |-> None ]

client_get_character_request(h, a) ==
    [ method |-> "GET", path |-> "/v1/custom-references/" \o a.character_id,
      headers |-> h, query |-> <<>>, json |-> None ]

client_delete_character_request(h, a) ==
    [ method |-> "DELETE", path |-> "/v1/custom-references/" \o a.character_id,
      headers |-> h, query |-> <<>>, json |-> None ]

\* the request a client method issues inside its AsyncClient scope
ClientRequest(op, h, a) ==
    CASE op = "generate_image"   -> client_generate_image_request(h, a)
      [] op = "generate_video"   -> client_generate_video_request(h, a)
      [] op = "create_character" -> client_create_character_request(h, a)
      [] op = "get_job_results"  -> client_get_job_results_request(h, a)
      [] op = "list_styles"      -> client_list_styles_request(h, a)
      [] op = "list_motions"     -> client_list_motions_request(h, a)
      [] op = "list_characters"  -> client_list_characters_request(h, a)
      [] op = "get_character"    -> client_get_character_request(h, a)
      [] op = "delete_character" -> client_delete_character_request(h, a)

\* What the upstream does with a request: a transport failure (no response),
\* or a response with a status code and a parsed JSON body.
TransportFailure == [kind |-> "transport"]
Response(status, body) == [kind |-> "response", status |-> status, body |-> body]

\* response.raise_for_status(): HTTPStatusError unless the status is 2xx
raise_for_status(reply) == ~(200 <= reply.status /\ reply.status < 300)

\* The tail of every client method once the awaited request settles:
\* the transport error raised by the await, else raise_for_status(), else
\* response.json() (delete_character returns nothing).
ClientResult(op, reply) ==
    IF reply.kind = "transport"
    THEN Raise("TransportError", "All connection attempts failed")
    ELSE IF raise_for_status(reply)
    THEN Raise("HTTPStatusError", "HTTP status " \o ToString(reply.status))
    ELSE IF op = "delete_character" THEN Return(None)
    ELSE Return(reply.body)

-----------------------------------------------------------------------------
(* server.py: the tool and resource facade *)

\* mutant: debug_credentials is defined without its @mcp.tool decorator
Tools_without_debug ==
    { "generate_image", "generate_video", "generate_talking_head",
      "create_character", "get_generation_status", "list_characters" }

\* callables registered with @mcp.tool and @mcp.resource
Tools ==
    { "generate_image", "generate_video", "generate_talking_head",
      "create_character", "get_generation_status", "debug_credentials",
      "list_characters" }
Resources ==
    { "list_soul_styles", "list_motion_presets", "list_character_resources" }
Callables == Tools \cup Resources

\* the scheme-qualified name each resource is registered under
resource_uri(name) ==
    CASE name = "list_soul_styles"         -> "higgsfield://styles"
      [] name = "list_motion_presets"      -> "higgsfield://motions"
      [] name = "list_character_resources" -> "higgsfield://characters"

\* the registries once the module is imported: every decorator has run
Registered ==
    [ tools |-> Tools, resources |-> { resource_uri(r) : r \in Resources } ]

\* the host can invoke what the registries hold
IsRegistered(reg, name) ==
    \/ name \in reg.tools
    \/ name \in Resources /\ resource_uri(name) \in reg.resources

\* the client attribute each callable awaits (debug_credentials awaits none)
FacadeClientOp(name) ==
    CASE name = "generate_image"           -> "generate_image"
      [] name = "generate_video"           -> "generate_video"
      [] name = "generate_talking_head"    -> "generate_talking_head"
      [] name = "create_character"         -> "create_character"
      [] name = "get_generation_status"    -> "get_job_results"
      [] name = "list_characters"          -> "list_characters"
      [] name = "list_soul_styles"         -> "list_styles"
      [] name = "list_motion_presets"      -> "list_motions"
      [] name = "list_character_resources" -> "list_characters"
      [] name = "debug_credentials"        -> None

\* generate_video: model_map.get(quality, "dop-preview") (server.py:168-173)
model_map ==
    [lite |-> "dop-lite", turbo |-> "dop-turbo", standard |-> "dop-preview"]

\* mutant: model_map[quality] guarded by a pass-through of unknown values
ResolveModel_passthrough(quality) ==
    IF quality \in DOMAIN model_map THEN model_map[quality] ELSE quality

ResolveModel(quality) == Get(model_map, quality, "dop-preview")

\* the keyword arguments each callable passes to the client method; the
\* parameters it leaves out take the defaults of the method's signature
FacadeClientArgs(name, a) ==
    CASE name = "generate_image" ->
            [ prompt |-> a.prompt, quality |-> a.quality, batch_size |-> 1,
              custom_reference_id |-> a.character_id, style_id |-> a.style_id,
              width_and_height |-> "2048x1152", enhance_prompt |-> FALSE,
              webhook_url |-> None, webhook_secret |-> None ]
      [] name = "generate_video" ->
            [ image_url |-> a.image_url, motion_id |-> a.motion_id,
              prompt |-> Or(a.prompt, ""), model |-> ResolveModel(a.quality),
              webhook_url |-> None, webhook_secret |-> None ]
      [] name = "create_character" ->
            [ name |-> a.name, image_urls |-> a.image_urls ]
      [] name = "get_generation_status" -> [ job_set_id |-> a.job_set_id ]
      [] name = "list_characters" -> [ page |-> 1, page_size |-> 50 ]
      [] name = "list_character_resources" -> [ page |-> 1, page_size |-> 100 ]
      [] OTHER -> a

JobStarted == "Job started - use get_generation_status to check completion"
JobSetKeys == {"id", "type", "created_at", "jobs"}

\* mutant: job_set_id is taken from the first job instead of the job set
generate_image_success_job_id(a, result) ==
    IF ~HasKeys(result, JobSetKeys) THEN Raise("KeyError", "missing key")
    ELSE Return([ success |-> TRUE,
                  job_set_id |-> result.jobs[1].id,
                  job_type |-> result.type,
                  status |-> JobStarted,
                  created_at |-> result.created_at,
                  jobs |-> result.jobs ])

\* generate_image: the try block after the await (server.py:114-121)
generate_image_success(a, result) ==
    IF ~HasKeys(result, JobSetKeys) THEN Raise("KeyError", "missing key")
    ELSE Return([ success |-> TRUE,
                  job_set_id |-> result.id,
                  job_type |-> result.type,
                  status |-> JobStarted,
                  created_at |-> result.created_at,
                  jobs |-> result.jobs ])

\* generate_image: the except block (server.py:122-127)
generate_image_failure(a, h, e) ==
    [ success |-> FALSE, error |-> e.msg,
      message |-> "Failed to start image generation" ]

\* generate_video: the try block after the await (server.py:182-189)
generate_video_success(a, result) ==
    IF ~HasKeys(result, JobSetKeys) THEN Raise("KeyError", "missing key")
    ELSE Return([ success |-> TRUE,
                  job_set_id |-> result.id,
                  job_type |-> result.type,
                  status |-> JobStarted,
                  created_at |-> result.created_at,
                  jobs |-> result.jobs ])

\* server.py:52-59: a missing credential is replaced by a dummy value
DummyApiKey == "dummy-api-key-for-inspection"
DummySecret == "dummy-secret-for-inspection"
server_api_key(k) == Or(k, DummyApiKey)
server_secret(s) == Or(s, DummySecret)

\* key[:8]: the dummy key is cut; every other key of the model is shorter
\* than 8 characters, so its slice is the whole key
Prefix8(key) == IF key = DummyApiKey THEN "dummy-ap" ELSE key

api_key_preview(h) ==
    IF Truthy(h["hf-api-key"]) THEN Prefix8(h["hf-api-key"]) \o "..." ELSE "NOT SET"

\* generate_video: the except block (server.py:190-207)
generate_video_failure(a, h, e) ==
    [ success |-> FALSE, error |-> e.msg, error_type |-> e.type,
      traceback |-> "Traceback (most recent call last): " \o e.type,
      message |-> "Failed to start video generation",
      debug_info |->
          [ image_url |-> a.image_url,
            motion_id |-> a.motion_id,
            model |-> Get(model_map, a.quality, "dop-preview"),
            prompt_provided |-> Truthy(a.prompt),
            api_key_configured |-> Truthy(h["hf-api-key"]),
            api_key_preview |-> api_key_preview(h) ] ]

\* generate_talking_head: the try block after the await (server.py:266-275)
generate_talking_head_success(a, result) ==
    IF ~HasKeys(result, JobSetKeys) THEN Raise("KeyError", "missing key")
    ELSE Return([ success |-> TRUE,
                  job_set_id |-> result.id,
                  job_type |-> result.type,
                  status |-> JobStarted,
                  created_at |-> result.created_at,
                  jobs |-> result.jobs,
                  duration |-> a.duration,
                  quality |-> a.quality ])

\* generate_talking_head: the except block (server.py:276-284)
generate_talking_head_failure(a, h, e) ==
    [ success |-> FALSE, error |-> e.msg, error_type |-> e.type,
      traceback |-> "Traceback (most recent call last): " \o e.type,
      message |-> "Failed to start talking head video generation" ]

\* create_character: the try block after the await (server.py:323-331)
create_character_success(a, result) ==
    IF ~HasKeys(result, {"id", "name", "status", "created_at"})
    THEN Raise("KeyError", "missing key")
    ELSE Return([ success |-> TRUE,
                  character_id |-> result.id,
                  name |-> result.name,
                  status |-> result.status,
                  message |-> "Character creation started. Status will progress: not_ready -> queued -> in_progress -> completed",
                  created_at |-> result.created_at,
                  note |-> "Use list_characters tool or get_generation_status to check when ready" ])

\* create_character: the except block (server.py:332-337)
create_character_failure(a, h, e) ==
    [ success |-> FALSE, error |-> e.msg,
      message |-> "Failed to create character reference" ]

\* get_generation_status: one entry of response["jobs"] (server.py:375-389)
job_info(job) ==
    (IF "results" \in DOMAIN job
        THEN "results" :> [ preview_url |-> job.results.min.url,
                            full_quality_url |-> job.results.raw.url,
                            type |-> job.results.raw.type ]
        ELSE <<>>) @@
    [ job_id |-> job.id, status |-> job.status ]

\* Python all() and any() over the list of job statuses
all_status(statuses, s) == \A i \in 1..Len(statuses) : statuses[i] = s
any_status(statuses, s) == \E i \in 1..Len(statuses) : statuses[i] = s

MsgComplete == "Generation complete! Download URLs above."
MsgFailed == "One or more jobs failed."
MsgNsfw == "Content filter triggered - regenerate with different prompt."
MsgProcessing == "Still processing - check again in a few seconds."

\* mutant: the nsfw rule is tested before the failed rule
status_message_nsfw_first(statuses) ==
    IF all_status(statuses, "completed") THEN MsgComplete
    ELSE IF any_status(statuses, "nsfw") THEN MsgNsfw
    ELSE IF any_status(statuses, "failed") THEN MsgFailed
    ELSE MsgProcessing

\* get_generation_status: the message chain (server.py:392-400)
status_message(statuses) ==
    IF all_status(statuses, "completed") THEN MsgComplete
    ELSE IF any_status(statuses, "failed") THEN MsgFailed
    ELSE IF any_status(statuses, "nsfw") THEN MsgNsfw
    ELSE MsgProcessing

\* get_generation_status: the try block after the await (server.py:367-402)
get_generation_status_success(a, result) ==
    IF ~HasKeys(result, JobSetKeys) THEN Raise("KeyError", "missing key")
    ELSE Return([ success |-> TRUE,
                  job_set_id |-> result.id,
                  type |-> result.type,
                  created_at |-> result.created_at,
                  jobs |-> [ i \in 1..Len(result.jobs) |-> job_info(result.jobs[i]) ],
                  message |-> status_message(
                      [ i \in 1..Len(result.jobs) |-> result.jobs[i].status ]) ])

\* get_generation_status: the except block (server.py:403-408)
get_generation_status_failure(a, h, e) ==
    [ success |-> FALSE, error |-> e.msg,
      message |-> "Failed to retrieve job status" ]

\* debug_credentials (server.py:419-425); the keys of a dict keep their
\* insertion order
debug_credentials_result(h) ==
    [ api_key_configured |-> Truthy(h["hf-api-key"]),
      secret_configured |-> Truthy(h["hf-secret"]),
      api_key_preview |-> api_key_preview(h),
      base_url |-> base_url,
      headers_keys |-> <<"hf-api-key", "hf-secret", "Content-Type", "Accept">> ]

\* list_characters and the characters resource: one reshaped item
\* (server.py:444-450, 546-552)
character_entry(item) ==
    [ character_id |-> item.id,
      name |-> item.name,
      status |-> item.status,
      thumbnail_url |-> Get(item, "thumbnail_url", None),
      created_at |-> item.created_at ]

\* mutant: the reshaped items are prepended, reversing the upstream order
reshape_characters_reversed(result) ==
    LET items == Get(result, "items", <<>>)
    IN  [ i \in 1..Len(items) |-> character_entry(items[Len(items) + 1 - i]) ]

reshape_characters(result) ==
    LET items == Get(result, "items", <<>>)
    IN  [ i \in 1..Len(items) |-> character_entry(items[i]) ]

\* list_characters: the try block after the await (server.py:442-457)
list_characters_success(a, result) ==
    LET characters == reshape_characters(result)
    IN  Return([ success |-> TRUE,
                 total |-> Get(result, "total", 0),
                 characters |-> characters,
                 message |-> "Found " \o ToString(Len(characters))
                             \o " character reference(s)" ])

\* list_characters: the except block (server.py:458-463)
list_characters_failure(a, h, e) ==
    [ success |-> FALSE, error |-> e.msg,
      message |-> "Failed to list characters" ]

\* styles resource (server.py:479-498)
style_entry(style) ==
    [ style_id |-> style.id, name |-> style.name,
      description |-> style.description,
      preview_url |-> Get(style, "preview_url", None) ]

list_soul_styles_success(a, styles) ==
    Return([ available_styles |-> [ i \in 1..Len(styles) |-> style_entry(styles[i]) ],
             usage |-> "Use style_id parameter in generate_image tool" ])

list_soul_styles_failure(a, h, e) ==
    [ error |-> e.msg, message |-> "Failed to fetch styles" ]

\* motions resource (server.py:510-530)
motion_entry(motion) ==
    [ motion_id |-> motion.id, name |-> motion.name,
      description |-> motion.description,
      preview_url |-> Get(motion, "preview_url", None),
      start_end_frame |-> Get(motion, "start_end_frame", FALSE) ]

list_motion_presets_success(a, motions) ==
    Return([ available_motions |-> [ i \in 1..Len(motions) |-> motion_entry(motions[i]) ],
             usage |-> "Use motion_id parameter in generate_video tool" ])

list_motion_presets_failure(a, h, e) ==
    [ error |-> e.msg, message |-> "Failed to fetch motion presets" ]

\* characters resource (server.py:542-563)
list_character_resources_success(a, result) ==
    Return([ total_characters |-> Get(result, "total", 0),
             characters |-> reshape_characters(result),
             usage |-> "Use character_id parameter in generate_image tool" ])

\* mutant: the resource's handler copied from the tool's
list_character_resources_failure_tool(a, h, e) ==
    [ success |-> FALSE, error |-> e.msg, message |-> "Failed to fetch characters" ]

list_character_resources_failure(a, h, e) ==
    [ error |-> e.msg, message |-> "Failed to fetch characters" ]

\* the statements of a callable's try block that follow the await
TryBlock(name, a, result) ==
    CASE name = "generate_image"           -> generate_image_success(a, result)
      [] name = "generate_video"           -> generate_video_success(a, result)
      [] name = "generate_talking_head"    -> generate_talking_head_success(a, result)
      [] name = "create_character"         -> create_character_success(a, result)
      [] name = "get_generation_status"    -> get_generation_status_success(a, result)
      [] name = "list_characters"          -> list_characters_success(a, result)
      [] name = "list_soul_styles"         -> list_soul_styles_success(a, result)
      [] name = "list_motion_presets"      -> list_motion_presets_success(a, result)
      [] name = "list_character_resources" -> list_character_resources_success(a, result)

\* the callable's except block
ExceptBlock(name, a, h, e) ==
    CASE name = "generate_image"           -> generate_image_failure(a, h, e)
      [] name = "generate_video"           -> generate_video_failure(a, h, e)
      [] name = "generate_talking_head"    -> generate_talking_head_failure(a, h, e)
      [] name = "create_character"         -> create_character_failure(a, h, e)
      [] name = "get_generation_status"    -> get_generation_status_failure(a, h, e)
      [] name = "list_characters"          -> list_characters_failure(a, h, e)
      [] name = "list_soul_styles"         -> list_soul_styles_failure(a, h, e)
      [] name = "list_motion_presets"      -> list_motion_presets_failure(a, h, e)
      [] name = "list_character_resources" -> list_character_resources_failure(a, h, e)

\* mutant: the handler names httpx.HTTPStatusError only
except_HTTPStatusError(name, type) == type = "HTTPStatusError"

\* `except Exception`: every exception class raised here derives from
\* Exception (httpx.HTTPStatusError, httpx.TransportError, KeyError,
\* AttributeError)
except_Exception(name, type) ==
    type \in {"HTTPStatusError", "TransportError", "KeyError", "AttributeError"}

\* try: <await client call>; <build envelope>  except Exception as e: ...
\* `awaited` is the outcome of the awaited client call.
Facade(name, a, h, awaited) ==
    LET body == IF awaited.tag = "raise" THEN awaited
                ELSE TryBlock(name, a, awaited.value)
    IN  IF body.tag = "raise" /\ except_Exception(name, body.type)
        THEN Return(ExceptBlock(name, a, h, body))
        ELSE body

-----------------------------------------------------------------------------
(* Bounds and input domains *)

MaxJobs == 2       \* longest jobs list of an upstream job set
MaxItems == 2      \* longest items list of an upstream catalog page
MaxImages == 6     \* longest image_urls list passed to create_character

\* the host's invocation slots: invocations that may be in flight together
Procs == {"p1", "p2"}

Credentials == {"", "hf-key"}
Secrets == {"", "hf-sec"}

SeqsUpTo(S, n) == UNION { [1..k -> S] : k \in 0..n }

OptStr(v) == {None, v}

GenerateImageArgs ==
    [ prompt : {"cat"}, quality : {"720p"},
      character_id : OptStr("c1"), style_id : OptStr("s1") ]

GenerateVideoArgs ==
    [ image_url : {"https://img/1.jpg"}, motion_id : {"m1"},
      prompt : {None, "", "a beach"},
      quality : {"lite", "turbo", "standard", "ultra"} ]

GenerateTalkingHeadArgs ==
    [ image_url : {"https://img/1.jpg"}, audio_url : {"https://snd/1.wav"},
      prompt : {"a speaker"}, quality : {"high"}, duration : {5, 10},
      enhance_prompt : {FALSE}, seed : {42} ]

\* image_urls lists of every length up to MaxImages: the URLs alternate, from
\* either one, so that neighbouring entries differ and order is visible
ImageUrl(n) == IF n % 2 = 0 THEN "https://img/1.jpg" ELSE "https://img/2.jpg"
ImageUrlLists ==
    { [ i \in 1..k |-> ImageUrl(i + first) ] : k \in 0..MaxImages, first \in {0, 1} }

CreateCharacterArgs == [ name : {"Jane"}, image_urls : ImageUrlLists ]

GetGenerationStatusArgs == [ job_set_id : {"j1"} ]

NoArgs == { [none |-> None] }

FacadeArgs(name) ==
    CASE name = "generate_image"        -> GenerateImageArgs
      [] name = "generate_video"        -> GenerateVideoArgs
      [] name = "generate_talking_head" -> GenerateTalkingHeadArgs
      [] name = "create_character"      -> CreateCharacterArgs
      [] name = "get_generation_status" -> GetGenerationStatusArgs
      [] OTHER                          -> NoArgs

\* direct calls of the client's methods (webhooks are reachable only here)
ClientGenerateImageArgs ==
    [ prompt : {"cat"}, quality : {"1080p"}, batch_size : {1},
      custom_reference_id : {None}, style_id : {None},
      width_and_height : {"2048x1152"}, enhance_prompt : {FALSE},
      webhook_url : OptStr("https://hook"), webhook_secret : OptStr("whsec") ]

ClientGenerateVideoArgs ==
    [ image_url : {"https://img/1.jpg"}, motion_id : {"m1"},
      prompt : {"", "a beach"}, model : {"dop-preview"},
      webhook_url : OptStr("https://hook"), webhook_secret : OptStr("whsec") ]

ClientArgs(op) ==
    CASE op = "generate_image"   -> ClientGenerateImageArgs
      [] op = "generate_video"   -> ClientGenerateVideoArgs
      [] op = "get_character"    -> [ character_id : {"c1"} ]
      [] op = "delete_character" -> [ character_id : {"c1"} ]

DirectOps == {"generate_image", "generate_video", "get_character", "delete_character"}

(* Upstream responses *)

CreatedAt == "2024-01-01T00:00:00Z"
JobStatuses == {"queued", "in_progress", "completed", "failed", "nsfw"}

\* a job of the upstream: results are present once it is completed
UpstreamJob(i, status) ==
    (IF status = "completed"
        THEN "results" :> [ min |-> [url |-> "https://cdn/min", type |-> "image/webp"],
                            raw |-> [url |-> "https://cdn/raw", type |-> "image/png"] ]
        ELSE <<>>) @@
    [ id |-> "job" \o ToString(i), status |-> status ]

JobSet(type, statuses) ==
    [ id |-> "j1", type |-> type, created_at |-> CreatedAt,
      jobs |-> [ i \in 1..Len(statuses) |-> UpstreamJob(i, statuses[i]) ] ]

Malformed == [ detail |-> "unexpected" ]

UpstreamCharacters ==
    { [ id |-> "c1", name |-> "Jane", status |-> "completed",
        thumbnail_url |-> "https://cdn/c1.jpg", created_at |-> CreatedAt ],
      [ id |-> "c2", name |-> "Joe", status |-> "not_ready",
        created_at |-> CreatedAt ] }

UpstreamStyles ==
    { [ id |-> "s1", name |-> "Noir", description |-> "dark",
        preview_url |-> "https://cdn/s1.jpg" ],
      [ id |-> "s2", name |-> "Pop", description |-> "bright" ] }

UpstreamMotions ==
    { [ id |-> "m1", name |-> "Zoom", description |-> "zoom in",
        preview_url |-> "https://cdn/m1.mp4", start_end_frame |-> TRUE ],
      [ id |-> "m2", name |-> "Pan", description |-> "pan left" ] }

CharacterPages ==
    UNION { { [items |-> items, total |-> Len(items)], [items |-> items] }
            : items \in SeqsUpTo(UpstreamCharacters, MaxItems) }

\* the 2xx bodies the upstream may answer a client method with
OkBodies(op) ==
    CASE op = "generate_image"   -> { JobSet("soul", <<"queued">>), Malformed }
      [] op = "generate_video"   -> { JobSet("dop", <<"queued">>), Malformed }
      [] op = "create_character" ->
            { [ id |-> "c1", name |-> "Jane", status |-> "not_ready",
                created_at |-> CreatedAt ], Malformed }
      [] op = "get_job_results"  ->
            { JobSet("soul", st) : st \in SeqsUpTo(JobStatuses, MaxJobs) }
            \cup { Malformed }
      [] op = "list_styles"      -> SeqsUpTo(UpstreamStyles, MaxItems)
      [] op = "list_motions"     -> SeqsUpTo(UpstreamMotions, MaxItems)
      [] op = "list_characters"  -> CharacterPages \cup { [total |-> 0] }
      [] op = "get_character"    ->
            { [ id |-> "c1", name |-> "Jane", status |-> "completed",
                created_at |-> CreatedAt ] }
      [] op = "delete_character" -> { [deleted |-> TRUE] }

ErrorStatuses == {401, 500}

-----------------------------------------------------------------------------
(* The state machine *)

Idle ==
    [ pc |-> "idle", layer |-> None, name |-> None, op |-> None, args |-> None,
      request |-> None, nreq |-> 0, conn |-> "none", reply |-> None,
      result |-> None ]

\* The client is either built by server.py:69 from the resolved credentials
\* or built directly from any credential pair.
Init ==
    /\ \E k \in Credentials, s \in Secrets :
          headers \in { HiggsfieldClient_init(k, s),
                        HiggsfieldClient_init(server_api_key(k), server_secret(s)) }
    /\ mcp = Registered
    /\ calls = [p \in Procs |-> Idle]

\* the client server.py:69 builds never has an empty credential
ServerClient(h) == Truthy(h["hf-api-key"]) /\ Truthy(h["hf-secret"])

\* a client method runs up to its await: the AsyncClient scope is entered
\* and the one request is issued with self.headers
Awaiting(layer, name, op, a, cargs) ==
    [ pc |-> "awaiting", layer |-> layer, name |-> name, op |-> op, args |-> a,
      request |-> ClientRequest(op, headers, cargs), nreq |-> 1, conn |-> "open",
      reply |-> None, result |-> None ]

\* a callable that finishes without issuing a request
Finished(name, op, a, result) ==
    [ pc |-> "done", layer |-> "facade", name |-> name, op |-> op, args |-> a,
      request |-> None, nreq |-> 0, conn |-> "none", reply |-> None,
      result |-> result ]

\* mutant: the client keeps the latest response in a shared attribute and
\* reads it back after the await, so a call may parse the response of
\* another call of the same method that settled meanwhile
Outcome_shared_response(c, h, reply) ==
    LET others == { q \in Procs : /\ calls[q].pc = "done" /\ calls[q].nreq = 1
                                  /\ calls[q].op = c.op /\ calls[q].request # c.request }
        seen == IF others = {} THEN reply ELSE calls[CHOOSE q \in others : TRUE].reply
        awaited == ClientResult(c.op, seen)
    IN  IF c.layer = "facade" THEN Facade(c.name, c.args, h, awaited)
        ELSE awaited

\* how a settled call ends: the client method's outcome, passed through the
\* callable's try/except when the call came through the facade
Outcome(c, h, reply) ==
    LET awaited == ClientResult(c.op, reply)
    IN  IF c.layer = "facade" THEN Facade(c.name, c.args, h, awaited)
        ELSE awaited

\* mutant: a failed request is sent once more before the error is raised
Settled_retry(c, h, reply) ==
    IF c.nreq = 1 /\ ClientResult(c.op, reply).tag = "raise"
    THEN [ c EXCEPT !.nreq = 2 ]
    ELSE [ c EXCEPT !.pc = "done", !.conn = "closed", !.reply = reply,
                    !.result = Outcome(c, h, reply) ]

\* mutant: the connection is closed after the result is read, not by the
\* `async with` block, so a raised error leaves it open
Settled_close_on_success(c, h, reply) ==
    [ c EXCEPT !.pc = "done",
               !.conn = IF ClientResult(c.op, reply).tag = "raise"
                        THEN "open" ELSE "closed",
               !.reply = reply,
               !.result = Outcome(c, h, reply) ]

\* the state of a call once the awaited request has settled: leaving the
\* `async with` block closes the connection on every path
Settled(c, h, reply) ==
    [ c EXCEPT !.pc = "done", !.conn = "closed", !.reply = reply,
               !.result = Outcome(c, h, reply) ]

\* the host invokes a tool or resource
Invoke(p) ==
    /\ calls[p].pc = "idle"
    /\ ServerClient(headers)
    /\ \E name \in { n \in Callables : IsRegistered(mcp, n) } :
       \E a \in FacadeArgs(name) :
          LET op == FacadeClientOp(name)
          IN  calls' = [calls EXCEPT ![p] =
                  IF name = "debug_credentials"
                  THEN Finished(name, op, a, Return(debug_credentials_result(headers)))
                  ELSE IF op \notin ClientMethods
                  THEN Finished(name, op, a,
                          Facade(name, a, headers,
                              Raise("AttributeError",
                                    "'HiggsfieldClient' object has no attribute")))
                  ELSE Awaiting("facade", name, op, a, FacadeClientArgs(name, a))]
    /\ UNCHANGED <<headers, mcp>>

\* a method of the client is called directly
ClientCall(p) ==
    /\ calls[p].pc = "idle"
    /\ \E op \in DirectOps : \E a \in ClientArgs(op) :
          calls' = [calls EXCEPT ![p] = Awaiting("client", op, op, a, a)]
    /\ UNCHANGED <<headers, mcp>>

\* the upstream answers 2xx with a JSON body
RespondOk(p) ==
    /\ calls[p].pc = "awaiting"
    /\ \E body \in OkBodies(calls[p].op) :
          calls' = [calls EXCEPT ![p] = Settled(calls[p], headers, Response(200, body))]
    /\ UNCHANGED <<headers, mcp>>

\* the upstream answers with a non-2xx status
RespondError(p) ==
    /\ calls[p].pc = "awaiting"
    /\ \E status \in ErrorStatuses :
          calls' = [calls EXCEPT ![p] =
              Settled(calls[p], headers, Response(status, [detail |-> "error"]))]
    /\ UNCHANGED <<headers, mcp>>

\* the request fails in transport (DNS, connect, timeout)
TransportError(p) ==
    /\ calls[p].pc = "awaiting"
    /\ calls' = [calls EXCEPT ![p] = Settled(calls[p], headers, TransportFailure)]
    /\ UNCHANGED <<headers, mcp>>

\* the caller takes the result; the slot is free again
Deliver(p) ==
    /\ calls[p].pc = "done"
    /\ calls' = [calls EXCEPT ![p] = Idle]
    /\ UNCHANGED <<headers, mcp>>

Next ==
    \E p \in Procs :
        \/ Invoke(p)
        \/ ClientCall(p)
        \/ RespondOk(p)
        \/ RespondError(p)
        \/ TransportError(p)
        \/ Deliver(p)

Spec == Init /\ [][Next]_vars

-----------------------------------------------------------------------------
(* Properties *)

\* a facade invocation that has finished
FacadeDone(c) == c.pc = "done" /\ c.layer = "facade"

\* the request of the call settled with a transport error or a non-2xx status
UpstreamFailed(c) ==
    /\ c.pc = "done" /\ c.nreq = 1
    /\ IF c.reply.kind = "transport" THEN TRUE
       ELSE c.reply.status < 200 \/ c.reply.status > 299

\* the request of the call settled with a 2xx response
UpstreamOk(c) ==
    /\ c.pc = "done" /\ c.nreq = 1
    /\ c.reply.kind = "response" /\ c.reply.status \in 200..299

NineCallables == Callables \ {"debug_credentials"}

\* C1: whenever the client call of one of the nine callables raises an
\* HTTP-status error or a transport error, the callable returns a failure
\* envelope (error and message), and no finished callable has raised.
C1_ErrorContainment ==
    \A p \in Procs :
        FacadeDone(calls[p]) =>
            /\ calls[p].result.tag = "return"
            /\ (calls[p].name \in NineCallables /\ UpstreamFailed(calls[p])) =>
                  {"error", "message"} \subseteq DOMAIN calls[p].result.value

C1_Witness ==
    /\ FacadeDone(calls["p1"]) /\ calls["p1"].name = "generate_video"
    /\ UpstreamFailed(calls["p1"]) /\ calls["p1"].reply.kind = "response"
    /\ FacadeDone(calls["p2"]) /\ calls["p2"].name = "list_soul_styles"
    /\ UpstreamFailed(calls["p2"]) /\ calls["p2"].reply.kind = "transport"
    /\ "error" \in DOMAIN calls["p2"].result.value

\* C2: a tool's failure envelope holds success = false, error and message;
\* a resource's failure envelope holds error and message and no success key;
\* and a failed upstream call yields such an envelope.
C2_FailureShapes ==
    \A p \in Procs :
        (FacadeDone(calls[p]) /\ calls[p].result.tag = "return") =>
            LET c == calls[p]
                env == calls[p].result.value
            IN  /\ (c.name \in NineCallables /\ UpstreamFailed(c)) =>
                        "error" \in DOMAIN env
                /\ (c.name \in Tools /\ "error" \in DOMAIN env) =>
                        /\ {"success", "message"} \subseteq DOMAIN env
                        /\ env.success = FALSE
                /\ (c.name \in Resources /\ "error" \in DOMAIN env) =>
                        /\ "message" \in DOMAIN env
                        /\ "success" \notin DOMAIN env

C2_Witness ==
    /\ FacadeDone(calls["p1"]) /\ calls["p1"].name = "list_characters"
    /\ UpstreamFailed(calls["p1"])
    /\ calls["p1"].result.value.success = FALSE
    /\ FacadeDone(calls["p2"]) /\ calls["p2"].name = "list_character_resources"
    /\ UpstreamFailed(calls["p2"])
    /\ DOMAIN calls["p2"].result.value = {"error", "message"}

\* C3: a finished generate_talking_head call has sent its request to the
\* upstream, returns the success envelope (job_set_id, job_type, created_at,
\* jobs, duration, quality) when the upstream accepted it, and returns a
\* failure envelope only when the upstream call failed.
C3_TalkingHeadReachesUpstream ==
    \A p \in Procs :
        (FacadeDone(calls[p]) /\ calls[p].name = "generate_talking_head") =>
            LET c == calls[p]
                env == calls[p].result.value
            IN  /\ c.nreq = 1
                /\ env.success = FALSE => UpstreamFailed(c)
                /\ env.success = TRUE =>
                      /\ {"job_set_id", "job_type", "created_at", "jobs"}
                            \subseteq DOMAIN env
                      /\ env.duration = c.args.duration
                      /\ env.quality = c.args.quality

C3_Reached ==
    \E p \in Procs :
        /\ FacadeDone(calls[p]) /\ calls[p].name = "generate_talking_head"
        /\ calls[p].result.value.error_type = "AttributeError"

HeaderKeys == {"hf-api-key", "hf-secret", "Content-Type", "Accept"}

HeaderShape ==
    /\ DOMAIN headers = HeaderKeys
    /\ headers["Content-Type"] = "application/json"
    /\ headers["Accept"] = "application/json"

HeadersAttached ==
    \A p \in Procs : calls[p].nreq = 1 => calls[p].request.headers = headers

\* C4: the header set of the client, built without error from any credential
\* pair, holds exactly the keys hf-api-key, hf-secret, Content-Type and
\* Accept, is never changed by any client operation, and is the header set of
\* every request issued.
C4_HeaderInvariant ==
    /\ [](HeaderShape /\ HeadersAttached)
    /\ [][headers' = headers]_vars

C4_Witness ==
    /\ headers["hf-api-key"] = "" /\ headers["hf-secret"] = ""
    /\ calls["p1"].layer = "client" /\ UpstreamFailed(calls["p1"])
    /\ calls["p2"].layer = "client" /\ UpstreamOk(calls["p2"])
    /\ calls["p1"].request.headers = headers
    /\ calls["p2"].request.headers = headers

\* C5: every generate_video request, whether issued through the tool or by a
\* direct client call, carries a non-empty prompt, and carries the fixed
\* placeholder when the caller's prompt is None or empty.
C5_PromptNeverEmpty ==
    \A p \in Procs :
        (calls[p].nreq = 1 /\ calls[p].op = "generate_video") =>
            LET sent == calls[p].request.json.params.prompt
            IN  /\ sent # "" /\ sent # None
                /\ ~Truthy(calls[p].args.prompt) => sent = GenericPrompt

C5_Witness ==
    /\ calls["p1"].nreq = 1 /\ calls["p1"].name = "generate_video"
    /\ calls["p1"].layer = "facade" /\ calls["p1"].args.prompt = None
    /\ calls["p1"].request.json.params.prompt = GenericPrompt
    /\ calls["p2"].nreq = 1 /\ calls["p2"].name = "generate_video"
    /\ calls["p2"].layer = "client" /\ calls["p2"].args.prompt = ""
    /\ calls["p2"].request.json.params.prompt = GenericPrompt

\* the webhook object the caller asked for
WebhookOf(a) == [url |-> a.webhook_url, secret |-> IF a.webhook_secret = None THEN ""
                                                   ELSE a.webhook_secret]

\* C6: with a webhook_url, generate_image sends the webhook object inside
\* params and not at the top level, generate_video sends it at the top level
\* and not inside params; without a webhook_url (every facade call) neither
\* body holds a webhook object.
C6_WebhookPlacement ==
    \A p \in Procs :
        (calls[p].nreq = 1 /\ calls[p].op \in {"generate_image", "generate_video"}) =>
            LET c == calls[p]
                body == calls[p].request.json
                given == IF calls[p].layer = "client"
                         THEN calls[p].args.webhook_url \notin {None, ""}
                         ELSE FALSE
            IN  /\ ~given =>
                      /\ "webhook" \notin DOMAIN body
                      /\ "webhook" \notin DOMAIN body.params
                /\ (given /\ c.op = "generate_image") =>
                      /\ "webhook" \notin DOMAIN body
                      /\ "webhook" \in DOMAIN body.params
                      /\ body.params.webhook = WebhookOf(c.args)
                /\ (given /\ c.op = "generate_video") =>
                      /\ "webhook" \in DOMAIN body
                      /\ "webhook" \notin DOMAIN body.params
                      /\ body.webhook = WebhookOf(c.args)

C6_Witness ==
    /\ calls["p1"].nreq = 1 /\ calls["p1"].op = "generate_image"
    /\ calls["p1"].layer = "client" /\ calls["p1"].args.webhook_url = "https://hook"
    /\ calls["p1"].args.webhook_secret = None
    /\ calls["p1"].request.json.params.webhook = [url |-> "https://hook", secret |-> ""]
    /\ calls["p2"].nreq = 1 /\ calls["p2"].op = "generate_video"
    /\ calls["p2"].layer = "client" /\ calls["p2"].args.webhook_url = "https://hook"
    /\ calls["p2"].request.json.webhook = [url |-> "https://hook", secret |-> "whsec"]

ExpectedModel(quality) ==
    IF quality = "lite" THEN "dop-lite"
    ELSE IF quality = "turbo" THEN "dop-turbo"
    ELSE "dop-preview"

\* C7: for every quality string the generate_video tool issues its request
\* (no error), with model dop-lite for "lite", dop-turbo for "turbo" and
\* dop-preview for anything else, and a failure envelope echoes that model.
C7_QualityToModel ==
    \A p \in Procs :
        (calls[p].layer = "facade" /\ calls[p].name = "generate_video") =>
            LET c == calls[p]
            IN  /\ c.nreq = 1
                /\ c.request.json.params.model = ExpectedModel(c.args.quality)
                /\ (c.pc = "done" /\ c.result.tag = "return"
                        /\ c.result.value.success = FALSE) =>
                      c.result.value.debug_info.model = ExpectedModel(c.args.quality)

C7_Witness ==
    /\ FacadeDone(calls["p1"]) /\ calls["p1"].name = "generate_video"
    /\ calls["p1"].args.quality = "ultra" /\ UpstreamFailed(calls["p1"])
    /\ calls["p1"].request.json.params.model = "dop-preview"
    /\ calls["p1"].result.value.debug_info.model = "dop-preview"
    /\ FacadeDone(calls["p2"]) /\ calls["p2"].name = "generate_video"
    /\ calls["p2"].args.quality = "turbo" /\ UpstreamFailed(calls["p2"])
    /\ calls["p2"].result.value.debug_info.model = "dop-turbo"

\* the statuses of the jobs the upstream reported to a finished status poll
PolledStatuses(c) ==
    [ i \in 1..Len(c.reply.body.jobs) |-> c.reply.body.jobs[i].status ]

StatusPollAnswered(c) ==
    /\ FacadeDone(c) /\ c.name = "get_generation_status" /\ UpstreamOk(c)
    /\ "jobs" \in DOMAIN c.reply.body

\* C8: the message of get_generation_status depends on the job statuses
\* alone: completion notice when all are completed; otherwise failure notice
\* when any failed; otherwise content-filter notice when any is nsfw;
\* otherwise the still-processing notice.
C8_StatusMessage ==
    \A p \in Procs :
        StatusPollAnswered(calls[p]) =>
            LET st == PolledStatuses(calls[p])
                msg == calls[p].result.value.message
                allDone == \A i \in DOMAIN st : st[i] = "completed"
                failed == \E i \in DOMAIN st : st[i] = "failed"
                nsfw == \E i \in DOMAIN st : st[i] = "nsfw"
            IN  /\ allDone => msg = MsgComplete
                /\ (~allDone /\ failed) => msg = MsgFailed
                /\ (~allDone /\ ~failed /\ nsfw) => msg = MsgNsfw
                /\ (~allDone /\ ~failed /\ ~nsfw) => msg = MsgProcessing

C8_Witness ==
    /\ StatusPollAnswered(calls["p1"])
    /\ PolledStatuses(calls["p1"]) = <<"nsfw", "failed">>
    /\ calls["p1"].result.value.message = MsgFailed
    /\ StatusPollAnswered(calls["p2"])
    /\ PolledStatuses(calls["p2"]) = <<"completed", "nsfw">>
    /\ calls["p2"].result.value.message = MsgNsfw

ImageAccepted(c) ==
    /\ FacadeDone(c) /\ c.name = "generate_image" /\ UpstreamOk(c)
    /\ JobSetKeys \subseteq DOMAIN c.reply.body

\* the fields of the generate_image envelope that come from the job set
JobSetFields(env, body) ==
    /\ env.success = TRUE
    /\ env.job_set_id = body.id
    /\ env.job_type = body.type
    /\ env.created_at = body.created_at
    /\ env.jobs = body.jobs

\* C9 as stated: for an upstream job set {id, type, created_at, jobs} the
\* generate_image envelope is exactly {success, job_set_id, job_type,
\* created_at, jobs}.
C9_ExactlyFiveFields ==
    \A p \in Procs :
        ImageAccepted(calls[p]) =>
            /\ DOMAIN calls[p].result.value =
                  {"success", "job_set_id", "job_type", "created_at", "jobs"}
            /\ JobSetFields(calls[p].result.value, calls[p].reply.body)

\* C9 amended: the generate_image envelope holds success = true, job_set_id,
\* job_type, created_at and jobs taken verbatim from the job set, and one
\* more field, status, holding the fixed job-started hint.
C9_EnvelopeWithStatus ==
    \A p \in Procs :
        ImageAccepted(calls[p]) =>
            /\ calls[p].result.tag = "return"
            /\ DOMAIN calls[p].result.value =
                  {"success", "job_set_id", "job_type", "status", "created_at", "jobs"}
            /\ JobSetFields(calls[p].result.value, calls[p].reply.body)
            /\ calls[p].result.value.status = JobStarted

C9_Witness ==
    /\ ImageAccepted(calls["p1"])
    /\ calls["p1"].reply.body =
          [ id |-> "j1", type |-> "soul", created_at |-> "2024-01-01T00:00:00Z",
            jobs |-> << [id |-> "job1", status |-> "queued"] >> ]
    /\ calls["p1"].result.value =
          [ success |-> TRUE, job_set_id |-> "j1", job_type |-> "soul",
            status |-> JobStarted, created_at |-> "2024-01-01T00:00:00Z",
            jobs |-> << [id |-> "job1", status |-> "queued"] >> ]

CharactersListed(c) ==
    FacadeDone(c) /\ c.name = "list_characters" /\ UpstreamOk(c)

\* C10: for an upstream page the list_characters tool returns success = true,
\* total = the upstream total (0 when absent), characters = the upstream items
\* reshaped one-to-one in upstream order, and the message "Found N character
\* reference(s)" with N the number of characters; for {items: [], total: 0}
\* the envelope is {success: true, total: 0, characters: [], message:
\* "Found 0 character reference(s)"}.
C10_ListCharacters ==
    \A p \in Procs :
        CharactersListed(calls[p]) =>
            LET page == calls[p].reply.body
                env == calls[p].result.value
                items == IF "items" \in DOMAIN page THEN page.items ELSE <<>>
            IN  /\ calls[p].result.tag = "return"
                /\ DOMAIN env = {"success", "total", "characters", "message"}
                /\ env.success = TRUE
                /\ env.total = (IF "total" \in DOMAIN page THEN page.total ELSE 0)
                /\ Len(env.characters) = Len(items)
                /\ \A i \in 1..Len(items) :
                      /\ env.characters[i].character_id = items[i].id
                      /\ env.characters[i].name = items[i].name
                      /\ env.characters[i].status = items[i].status
                      /\ env.characters[i].created_at = items[i].created_at
                      /\ env.characters[i].thumbnail_url =
                            (IF "thumbnail_url" \in DOMAIN items[i]
                                THEN items[i].thumbnail_url ELSE None)
                /\ env.message =
                      "Found " \o ToString(Len(env.characters)) \o " character reference(s)"
                /\ page = [items |-> <<>>, total |-> 0] =>
                      env = [ success |-> TRUE, total |-> 0, characters |-> <<>>,
                              message |-> "Found 0 character reference(s)" ]

C10_Witness ==
    /\ CharactersListed(calls["p1"])
    /\ calls["p1"].reply.body = [items |-> <<>>, total |-> 0]
    /\ calls["p1"].result.value.message = "Found 0 character reference(s)"
    /\ CharactersListed(calls["p2"])
    /\ "total" \notin DOMAIN calls["p2"].reply.body
    /\ Len(calls["p2"].reply.body.items) = 2
    /\ calls["p2"].reply.body.items[1].id = "c2"
    /\ calls["p2"].reply.body.items[2].id = "c1"
    /\ calls["p2"].result.value.characters[1].character_id = "c2"
    /\ calls["p2"].result.value.characters[1].thumbnail_url = None
    /\ calls["p2"].result.value.message = "Found 2 character reference(s)"
    /\ calls["p2"].result.value.total = 0

SixTools ==
    { "generate_image", "generate_video", "generate_talking_head",
      "create_character", "get_generation_status", "list_characters" }

ThreeResources ==
    { "higgsfield://styles", "higgsfield://motions", "higgsfield://characters" }

\* C11 as stated: the tool registry holds exactly the 6 named callables and
\* the resource registry exactly the 3 resources.
C11_ExactlySixTools ==
    /\ mcp.tools = SixTools
    /\ Cardinality(mcp.tools) = 6
    /\ mcp.resources = ThreeResources

\* C11 amended: the tool registry holds exactly 7 callables, the six named
\* ones and debug_credentials, and the resource registry holds exactly the 3
\* resources styles, motions and characters; every invocation in flight is
\* of a registered callable.
C11_SevenToolsThreeResources ==
    /\ mcp.tools = SixTools \cup {"debug_credentials"}
    /\ Cardinality(mcp.tools) = 7
    /\ mcp.resources = ThreeResources
    /\ Cardinality(mcp.resources) = 3
    /\ \A p \in Procs :
          calls[p].layer = "facade" => IsRegistered(mcp, calls[p].name)

C11_Witness ==
    /\ FacadeDone(calls["p1"]) /\ calls["p1"].name = "debug_credentials"
    /\ calls["p1"].name \in mcp.tools
    /\ calls["p1"].result.value.headers_keys =
          <<"hf-api-key", "hf-secret", "Content-Type", "Accept">>
    /\ FacadeDone(calls["p2"]) /\ calls["p2"].name = "list_motion_presets"
    /\ "higgsfield://motions" \in mcp.resources

CreateCharacterCalled(c) ==
    c.pc # "idle" /\ c.layer = "facade" /\ c.name = "create_character"

\* C12: create_character validates nothing about the number of images: for
\* an image_urls list of any length, 0 and 6 included, one POST is issued
\* whose input_images holds one {type: "image_url", image_url} object per
\* URL, in input order, and the finished tool has returned an envelope.
C12_CreateCharacterForwardsAll ==
    \A p \in Procs :
        CreateCharacterCalled(calls[p]) =>
            LET c == calls[p]
                urls == calls[p].args.image_urls
                sent == calls[p].request.json
            IN  /\ c.nreq = 1
                /\ c.request.method = "POST"
                /\ c.request.path = "/v1/custom-references"
                /\ sent.name = c.args.name
                /\ Len(sent.input_images) = Len(urls)
                /\ \A i \in 1..Len(urls) :
                      sent.input_images[i] = [type |-> "image_url", image_url |-> urls[i]]
                /\ c.pc = "done" =>
                      /\ c.result.tag = "return"
                      /\ "success" \in DOMAIN c.result.value

C12_Witness ==
    /\ CreateCharacterCalled(calls["p1"]) /\ calls["p1"].pc = "done"
    /\ Len(calls["p1"].args.image_urls) = 6
    /\ Len(calls["p1"].request.json.input_images) = 6
    /\ calls["p1"].request.json.input_images[6].image_url = "https://img/2.jpg"
    /\ calls["p1"].result.value.success = TRUE
    /\ CreateCharacterCalled(calls["p2"]) /\ calls["p2"].pc = "done"
    /\ calls["p2"].args.image_urls = <<>>
    /\ calls["p2"].request.json.input_images = <<>>
    /\ calls["p2"].nreq = 1
    /\ calls["p2"].result.value.success = FALSE

\* two values of an invocation slot are the same invocation in the same state
SameCall(c, d) ==
    /\ c.pc = d.pc /\ c.layer = d.layer /\ c.name = d.name /\ c.op = d.op
    /\ c.nreq = d.nreq /\ c.conn = d.conn
    /\ c.pc # "idle" => c.args = d.args
    /\ c.nreq >= 1 => c.request = d.request
    /\ c.pc = "done" =>
          /\ c.result = d.result
          /\ c.nreq >= 1 => c.reply = d.reply

\* a client method is running or has run under the call
ClientOperation(c) == c.pc # "idle" /\ c.op \in ClientMethods

RequestBound ==
    \A p \in Procs :
        /\ calls[p].nreq <= 1
        /\ ClientOperation(calls[p]) => calls[p].nreq = 1

\* a step never adds a request to an invocation that has issued one, and an
\* invocation whose request failed only ends
NoRetryStep ==
    \A p \in Procs :
        /\ (calls[p].pc # "idle" /\ calls'[p].pc # "idle") =>
              calls'[p].nreq = calls[p].nreq
        /\ UpstreamFailed(calls[p]) =>
              (calls'[p].pc = "idle" \/ SameCall(calls'[p], calls[p]))

\* C13: an invocation of a callable issues at most one request and a client
\* operation exactly one; once issued, no step adds a request to the
\* invocation, and after a failed request the invocation only ends.
C13_SingleRequestNoRetry ==
    /\ []RequestBound
    /\ [][NoRetryStep]_vars

C13_Witness ==
    /\ FacadeDone(calls["p1"]) /\ calls["p1"].name = "get_generation_status"
    /\ UpstreamFailed(calls["p1"]) /\ calls["p1"].reply.kind = "response"
    /\ calls["p1"].nreq = 1
    /\ calls["p2"].pc = "done" /\ calls["p2"].layer = "client"
    /\ calls["p2"].op = "generate_image"
    /\ UpstreamFailed(calls["p2"]) /\ calls["p2"].reply.kind = "transport"
    /\ calls["p2"].nreq = 1

\* C14: a client operation holds an open connection exactly while its
\* request is awaited; once it has finished, by a result, an HTTP-status
\* error or a transport error, its connection is closed, and a slot with no
\* operation holds no connection.
C14_ConnectionReleased ==
    \A p \in Procs :
        /\ calls[p].pc = "awaiting" => calls[p].conn = "open"
        /\ (calls[p].pc = "done" /\ calls[p].nreq = 1) => calls[p].conn = "closed"
        /\ calls[p].pc = "done" => calls[p].conn # "open"
        /\ calls[p].pc = "idle" => calls[p].conn = "none"

C14_Witness ==
    /\ calls["p1"].pc = "done" /\ calls["p1"].op = "delete_character"
    /\ UpstreamFailed(calls["p1"]) /\ calls["p1"].reply.kind = "transport"
    /\ calls["p1"].conn = "closed"
    /\ calls["p2"].pc = "done" /\ calls["p2"].layer = "facade"
    /\ calls["p2"].op = "generate_video"
    /\ UpstreamFailed(calls["p2"]) /\ calls["p2"].reply.kind = "response"
    /\ calls["p2"].conn = "closed"

\* two invocations with the same callable and arguments
SameInvocation(c, d) ==
    /\ c.pc # "idle" /\ d.pc # "idle"
    /\ c.layer = d.layer /\ c.name = d.name /\ c.args = d.args

\* what an invocation sends and returns is the same as for any other
\* invocation with its arguments and its upstream response
OwnInputsDecide ==
    \A p, q \in Procs :
        SameInvocation(calls[p], calls[q]) =>
            /\ (calls[p].nreq = 1 /\ calls[q].nreq = 1) =>
                  calls[p].request = calls[q].request
            /\ (calls[p].pc = "done" /\ calls[q].pc = "done"
                    /\ calls[p].reply = calls[q].reply) =>
                  calls[p].result = calls[q].result

\* a step of one invocation leaves every other invocation and the headers
\* as they are
NoInterferenceStep ==
    /\ headers' = headers
    /\ \A p, q \in Procs :
          (p # q /\ ~SameCall(calls'[p], calls[p])) => SameCall(calls'[q], calls[q])

C16_CompleteOnlyWithJobs ==
    \A p \in Procs :
        (StatusPollAnswered(calls[p])
            /\ calls[p].result.value.message = MsgComplete) =>
                /\ Len(calls[p].reply.body.jobs) >= 1
                /\ \A i \in 1..Len(calls[p].reply.body.jobs) :
                      calls[p].reply.body.jobs[i].status = "completed"

C16_Reached ==
    \E p \in Procs :
        /\ StatusPollAnswered(calls[p])
        /\ calls[p].reply.body.jobs = <<>>
        /\ calls[p].result.value.message = MsgComplete
=============================================================================
